---- MODULE Spec2Model ----
(***************************************************************************)
(* Model of docx_to_md.py: the style classifier (get_style_name,           *)
(* heading_level), the paragraph and table renderer (paragraph_to_md,      *)
(* docx_to_md) and the batch driver (main).                                *)
(*                                                                         *)
(* Python strings are modelled as sequences of one-character strings, so   *)
(* that lower(), strip(), replace(), join() and substring tests are        *)
(* computed character by character.                                        *)
(***************************************************************************)
EXTENDS Integers, Sequences, FiniteSets, TLC

VARIABLES
    style,      \* paragraph.style of the paragraph under classification
    hl,         \* result of heading_level on the raw style label
    ptext,      \* paragraph.text of the paragraph under conversion
    line,       \* result of paragraph_to_md
    plines,     \* the list `lines` of docx_to_md for a one-paragraph walk
    cpc         \* position of the classifier run

VARIABLES
    doc,        \* the Document: [paragraphs, tables]
    lines,      \* the list `lines` of docx_to_md
    rows,       \* the list `rows` of the table under conversion
    pidx,       \* index of the next paragraph of the walk
    tidx,       \* index of the next (or current) table of the walk
    out,        \* the string docx_to_md returns
    rpc,        \* position of the walk
    origin,     \* history: for every unit of `lines`, where it comes from
    mark        \* history: `lines` as it was when the current table began

cvars == <<style, hl, ptext, line, plines, cpc>>
rvars == <<doc, lines, rows, pidx, tidx, out, rpc, origin, mark>>

VARIABLES
    exists,     \* the input names whose file exists
    readable,   \* the existing inputs that Document() can open
    fileDoc,    \* the document held by each input file
    midx,       \* index of the next name of main's loop
    writes,     \* the write_text calls so far: <<[path, content], ...>>
    printed,    \* the messages printed so far
    converted,  \* history: the indices docx_to_md was called for
    mpc         \* position of main

mvars == <<exists, readable, fileDoc, midx, writes, printed, converted, mpc>>

vars == <<cvars, rvars, mvars>>

-----------------------------------------------------------------------------
(* Bounds of the model *)

MaxFrags == 3
MaxParas == 2
MaxTables == 2
MaxRows == 2

-----------------------------------------------------------------------------
(* Python str primitives *)

Whitespace == {" ", "\t", "\n", "\r", "\f"}

UpperMap ==
    [c \in {"A", "B", "C", "D", "E", "F", "G", "H", "I", "J", "K", "L", "M",
            "N", "O", "P", "Q", "R", "S", "T", "U", "V", "W", "X", "Y", "Z"} |->
        CASE c = "A" -> "a" [] c = "B" -> "b" [] c = "C" -> "c" [] c = "D" -> "d"
          [] c = "E" -> "e" [] c = "F" -> "f" [] c = "G" -> "g" [] c = "H" -> "h"
          [] c = "I" -> "i" [] c = "J" -> "j" [] c = "K" -> "k" [] c = "L" -> "l"
          [] c = "M" -> "m" [] c = "N" -> "n" [] c = "O" -> "o" [] c = "P" -> "p"
          [] c = "Q" -> "q" [] c = "R" -> "r" [] c = "S" -> "s" [] c = "T" -> "t"
          [] c = "U" -> "u" [] c = "V" -> "v" [] c = "W" -> "w" [] c = "X" -> "x"
          [] c = "Y" -> "y" [] c = "Z" -> "z"]

\* str.lower()
Lower(s) ==
    [i \in 1..Len(s) |-> IF s[i] \in DOMAIN UpperMap THEN UpperMap[s[i]] ELSE s[i]]

\* sub in s
Contains(s, sub) ==
    \E i \in 1..(Len(s) - Len(sub) + 1) : SubSeq(s, i, i + Len(sub) - 1) = sub

\* s.startswith(prefix)
StartsWith(s, prefix) ==
    /\ Len(prefix) <= Len(s)
    /\ SubSeq(s, 1, Len(prefix)) = prefix

\* str.strip()
Strip(s) ==
    LET keep == {i \in 1..Len(s) : s[i] \notin Whitespace}
    IN  IF keep = {} THEN <<>>
        ELSE LET lo == CHOOSE i \in keep : \A j \in keep : i <= j
                 hi == CHOOSE i \in keep : \A j \in keep : j <= i
             IN  SubSeq(s, lo, hi)

\* s * n
Repeat(s, n) == [k \in 1..(Len(s) * n) |-> s[((k - 1) % Len(s)) + 1]]

\* str(i) for i in 1..9
DigitChars == <<"1", "2", "3", "4", "5", "6", "7", "8", "9">>
Str(i) == <<DigitChars[i]>>

-----------------------------------------------------------------------------
(* String literals of the program *)

sTitle   == <<"t", "i", "t", "l", "e">>
sHeading == <<"h", "e", "a", "d", "i", "n", "g">>
sNormal  == <<"n", "o", "r", "m", "a", "l">>

\* Python None / a str value
None == [none |-> TRUE, s |-> <<>>]
Some(s) == [none |-> FALSE, s |-> s]

-----------------------------------------------------------------------------
(* Style classifier *)

MaxLevel == 6
RangeStop == 10
PlainHeadingLevel == 2

\* A paragraph style: absent, or an object whose name is None or a str.
NoStyle == [present |-> FALSE, name |-> None]
StyleOf(name) == [present |-> TRUE, name |-> name]

get_style_name(paragraph) ==
    IF ~paragraph.style.present THEN None
    ELSE LET name == Lower(IF paragraph.style.name.none THEN <<>>
                           ELSE paragraph.style.name.s)
         IN  IF Contains(name, sHeading) \/ StartsWith(name, sTitle)
             THEN Some(name)
             ELSE Some(sNormal)

Min2(a, b) == IF a <= b THEN a ELSE b

\* the numbers i of range(1, 10) whose "heading i" / "headingi" is in name
HeadingMatches(name) ==
    {i \in 1..(RangeStop - 1) :
        \/ Contains(name, sHeading \o <<" ">> \o Str(i))
        \/ Contains(name, sHeading \o Str(i))}

\* heading_level with the "title" test moved after the numbered-heading loop
heading_level_title_last(style_name) ==
    IF style_name.none \/ style_name.s = <<>> THEN 0
    ELSE LET name == Lower(style_name.s)
             m    == HeadingMatches(name)
         IN  IF m # {}
             THEN Min2(CHOOSE i \in m : \A j \in m : i <= j, MaxLevel)
             ELSE IF Contains(name, sTitle) THEN 1
                  ELSE IF Contains(name, sHeading) THEN PlainHeadingLevel
                       ELSE 0

\* heading_level that looks for "heading i" only, not for "headingi"
heading_level_spaced_only(style_name) ==
    IF style_name.none \/ style_name.s = <<>> THEN 0
    ELSE LET name == Lower(style_name.s)
             m    == {i \in 1..(RangeStop - 1) :
                        Contains(name, sHeading \o <<" ">> \o Str(i))}
         IN  IF Contains(name, sTitle) THEN 1
             ELSE IF m # {}
                  THEN Min2(CHOOSE i \in m : \A j \in m : i <= j, MaxLevel)
                  ELSE IF Contains(name, sHeading) THEN PlainHeadingLevel
                       ELSE 0

\* heading_level that returns i instead of min(i, 6)
heading_level_unclamped(style_name) ==
    IF style_name.none \/ style_name.s = <<>> THEN 0
    ELSE LET name == Lower(style_name.s)
             m    == HeadingMatches(name)
         IN  IF Contains(name, sTitle) THEN 1
             ELSE IF m # {}
                  THEN CHOOSE i \in m : \A j \in m : i <= j
                  ELSE IF Contains(name, sHeading) THEN PlainHeadingLevel
                       ELSE 0

heading_level(style_name) ==
    IF style_name.none \/ style_name.s = <<>> THEN 0
    ELSE LET name == Lower(style_name.s)
             m    == HeadingMatches(name)
         IN  IF Contains(name, sTitle) THEN 1
             ELSE IF m # {}
                  THEN Min2(CHOOSE i \in m : \A j \in m : i <= j, MaxLevel)
                  ELSE IF Contains(name, sHeading) THEN PlainHeadingLevel
                       ELSE 0

paragraph_to_md(paragraph) ==
    LET text == Strip(paragraph.text)
    IN  IF text = <<>> THEN <<>>
        ELSE LET style_name == get_style_name(paragraph)
                 level      == heading_level(style_name)
             IN  IF level >= 1
                 THEN Repeat(<<"#">>, level) \o <<" ">> \o text
                 ELSE text

\* body of the paragraph loop without the `if line:` test
ParaAppend_unguarded(ls, para) == Append(ls, paragraph_to_md(para))

\* body of the paragraph loop of docx_to_md
ParaAppend(ls, para) ==
    LET l == paragraph_to_md(para)
    IN  IF l # <<>> THEN Append(ls, l) ELSE ls

-----------------------------------------------------------------------------
(* More str and list primitives *)

\* s.replace(old, new), old non-empty: leftmost non-overlapping occurrences
RECURSIVE Replace(_, _, _)
Replace(s, old, new) ==
    IF Len(s) < Len(old) THEN s
    ELSE IF SubSeq(s, 1, Len(old)) = old
         THEN new \o Replace(SubSeq(s, Len(old) + 1, Len(s)), old, new)
         ELSE <<s[1]>> \o Replace(Tail(s), old, new)

\* sep.join(items)
RECURSIVE Join(_, _)
Join(sep, items) ==
    IF items = <<>> THEN <<>>
    ELSE IF Len(items) = 1 THEN items[1]
         ELSE items[1] \o sep \o Join(sep, Tail(items))

\* list.insert(i, x) with Python's index rules; i counts from 0, a negative i
\* counts from the end, and an index beyond either end is clamped
PyInsert(list, i, x) ==
    LET n  == Len(list)
        i1 == IF i < 0 THEN i + n ELSE i
        i2 == IF i1 < 0 THEN 0 ELSE IF i1 > n THEN n ELSE i1
    IN  SubSeq(list, 1, i2) \o <<x>> \o SubSeq(list, i2 + 1, n)

-----------------------------------------------------------------------------
(* Table rendering: the pieces of the table loop of docx_to_md *)

CellText(cell) == Replace(Strip(cell), <<"\n">>, <<" ">>)

RowLine(row) ==
    <<"|", " ">>
    \o Join(<<" ", "|", " ">>, [j \in 1..Len(row) |-> CellText(row[j])])
    \o <<" ", "|">>

\* the list `rows` built from table.rows
RowLines(table) == [i \in 1..Len(table) |-> RowLine(table[i])]

\* if rows:
HasRows_always(rs) == TRUE
HasRows(rs) == rs # <<>>

\* lines.append(""); lines.extend(rows)
OpenBlock(ls, rs) == Append(ls, <<>>) \o rs

\* if len(rows) >= 2:
SepNeeded_one(rs) == Len(rs) >= 1
SepNeeded(rs) == Len(rs) >= 2

\* "|" + " --- |" * num_cols, num_cols = len(table.rows[0].cells)
SepLine(table) ==
    LET num_cols == Len(table[1])
    IN  <<"|">> \o Repeat(<<" ", "-", "-", "-", " ", "|">>, num_cols)

\* the index -len(rows) + 1 given to lines.insert
SepIndex_header(rs) == -Len(rs)
SepIndex_front(rs) == 1
SepIndex(rs) == -Len(rs) + 1

\* one iteration of the table loop
TableAppend(ls, table) ==
    LET rs == RowLines(table)
    IN  IF ~HasRows(rs) THEN ls
        ELSE LET l1 == OpenBlock(ls, rs)
                 l2 == IF SepNeeded(rs)
                       THEN PyInsert(l1, SepIndex(rs), SepLine(table))
                       ELSE l1
             IN  Append(l2, <<>>)

RECURSIVE ParaWalk(_, _)
ParaWalk(ls, ps) ==
    IF ps = <<>> THEN ls ELSE ParaWalk(ParaAppend(ls, ps[1]), Tail(ps))

RECURSIVE TableWalk(_, _)
TableWalk(ls, ts) ==
    IF ts = <<>> THEN ls ELSE TableWalk(TableAppend(ls, ts[1]), Tail(ts))

docx_to_md(d) ==
    Join(<<"\n", "\n">>, TableWalk(ParaWalk(<<>>, d.paragraphs), d.tables))

-----------------------------------------------------------------------------
(* Documents of the walk *)

RECURSIVE SeqsUpTo(_, _)
SeqsUpTo(S, n) ==
    IF n = 0 THEN {<<>>}
    ELSE LET shorter == SeqsUpTo(S, n - 1)
         IN  shorter \cup {Append(q, x) : q \in shorter, x \in S}

sHeading2 == <<"H", "e", "a", "d", "i", "n", "g", " ", "2">>
sTitleCap == <<"T", "i", "t", "l", "e">>

PStyles == {NoStyle, StyleOf(Some(sHeading2)), StyleOf(Some(sTitleCap))}
PTexts  == { <<>>, <<" ", "\t">>, <<"a">>, <<" ", "b", "\n">> }
ParaKinds == {[style |-> st, text |-> t] : st \in PStyles, t \in PTexts}

Row3 == << <<" ", "a", " ">>, <<"b", "\n", "c">>, <<"d">> >>
Row1 == << <<"e">> >>
RowKinds == {Row3, Row1}
TableKinds == SeqsUpTo(RowKinds, MaxRows)

FewParaLists ==
    { <<>>,
      << [style |-> StyleOf(Some(sHeading2)), text |-> <<"a">>] >>,
      << [style |-> NoStyle, text |-> <<" ", "b", "\n">>],
         [style |-> StyleOf(Some(sTitleCap)), text |-> <<" ", "\t">>],
         [style |-> StyleOf(Some(sTitleCap)), text |-> <<"a">>] >> }

FewTableLists ==
    { <<>>,
      << << Row3, Row1 >> >>,
      << <<>>, << Row1 >> >> }

Docs ==
    {[paragraphs |-> ps, tables |-> ts] :
        ps \in SeqsUpTo(ParaKinds, MaxParas), ts \in FewTableLists}
    \cup
    {[paragraphs |-> ps, tables |-> ts] :
        ps \in FewParaLists, ts \in SeqsUpTo(TableKinds, MaxTables)}

-----------------------------------------------------------------------------
(* The walk of docx_to_md, one loop iteration or list operation per step *)

Tag(k, a, b) == [k |-> k, a |-> a, b |-> b]

IdleR ==
    /\ doc = [paragraphs |-> <<>>, tables |-> <<>>]
    /\ lines = <<>> /\ rows = <<>> /\ pidx = 0 /\ tidx = 0
    /\ out = <<>> /\ rpc = "idle" /\ origin = <<>> /\ mark = <<>>

IdleC ==
    /\ style = NoStyle /\ hl = -1 /\ ptext = <<>> /\ line = <<>>
    /\ plines = <<>> /\ cpc = "idle"

IdleM ==
    /\ exists = {} /\ readable = {} /\ fileDoc = <<>> /\ midx = 0
    /\ writes = <<>> /\ printed = <<>> /\ converted = <<>> /\ mpc = "idle"

InitR ==
    /\ doc \in Docs
    /\ lines = <<>> /\ rows = <<>> /\ pidx = 1 /\ tidx = 1
    /\ out = <<>> /\ rpc = "paras" /\ origin = <<>> /\ mark = <<>>
    /\ IdleC
    /\ IdleM

\* for para in doc.paragraphs: ...
ParaStep ==
    /\ rpc = "paras" /\ pidx <= Len(doc.paragraphs)
    /\ lines' = ParaAppend(lines, doc.paragraphs[pidx])
    /\ origin' = IF Len(lines') > Len(lines)
                 THEN Append(origin, Tag("para", pidx, 0)) ELSE origin
    /\ pidx' = pidx + 1
    /\ UNCHANGED <<doc, rows, tidx, out, rpc, mark, cvars, mvars>>

ParasDone ==
    /\ rpc = "paras" /\ pidx > Len(doc.paragraphs)
    /\ rpc' = "tables"
    /\ UNCHANGED <<doc, lines, rows, pidx, tidx, out, origin, mark, cvars, mvars>>

\* for table in doc.tables: rows = [...]
BuildRows ==
    /\ rpc = "tables" /\ tidx <= Len(doc.tables)
    /\ rows' = RowLines(doc.tables[tidx])
    /\ mark' = lines
    /\ rpc' = "rows_built"
    /\ UNCHANGED <<doc, lines, pidx, tidx, out, origin, cvars, mvars>>

\* if rows: (false)
SkipTable ==
    /\ rpc = "rows_built" /\ ~HasRows(rows)
    /\ tidx' = tidx + 1
    /\ rpc' = "tables"
    /\ UNCHANGED <<doc, lines, rows, pidx, out, origin, mark, cvars, mvars>>

\* if rows: lines.append(""); lines.extend(rows)
OpenTable ==
    /\ rpc = "rows_built" /\ HasRows(rows)
    /\ lines' = OpenBlock(lines, rows)
    /\ origin' = Append(origin, Tag("open", tidx, 0))
                    \o [i \in 1..Len(rows) |-> Tag("row", tidx, i)]
    /\ rpc' = "opened"
    /\ UNCHANGED <<doc, rows, pidx, tidx, out, mark, cvars, mvars>>

\* if len(rows) >= 2: lines.insert(-len(rows) + 1, separator)
InsertSep ==
    /\ rpc = "opened" /\ SepNeeded(rows)
    /\ lines' = PyInsert(lines, SepIndex(rows), SepLine(doc.tables[tidx]))
    /\ origin' = PyInsert(origin, SepIndex(rows), Tag("sep", tidx, 0))
    /\ rpc' = "sep_done"
    /\ UNCHANGED <<doc, rows, pidx, tidx, out, mark, cvars, mvars>>

\* lines.append("") closing the block
CloseTable ==
    /\ \/ rpc = "sep_done"
       \/ rpc = "opened" /\ ~SepNeeded(rows)
    /\ lines' = Append(lines, <<>>)
    /\ origin' = Append(origin, Tag("close", tidx, 0))
    /\ tidx' = tidx + 1
    /\ rpc' = "tables"
    /\ UNCHANGED <<doc, rows, pidx, out, mark, cvars, mvars>>

\* return "\n\n".join(lines)
Finish ==
    /\ rpc = "tables" /\ tidx > Len(doc.tables)
    /\ out' = Join(<<"\n", "\n">>, lines)
    /\ rpc' = "done"
    /\ UNCHANGED <<doc, lines, rows, pidx, tidx, origin, mark, cvars, mvars>>

NextR ==
    \/ ParaStep \/ ParasDone \/ BuildRows \/ SkipTable
    \/ OpenTable \/ InsertSep \/ CloseTable \/ Finish

SpecR == InitR /\ [][NextR]_vars

\* the stepwise walk returns what the function docx_to_md returns
WalkIsFunction == rpc = "done" => out = docx_to_md(doc)

-----------------------------------------------------------------------------
(* main: the batch over the three hardcoded input names *)

Names ==
  <<
    <<"S", "e", "n", "i", "o", "r", "_", "L", "e", "a", "d", "_", "A", "r",
      "c", "h", "i", "t", "e", "c", "t", "u", "r", "e", "_", "I", "n", "t",
      "e", "r", "v", "i", "e", "w", "_", "P", "r", "e", "p", "_", "P", "a",
      "r", "t", "1", ".", "d", "o", "c", "x">>,
    <<"S", "e", "n", "i", "o", "r", "_", "L", "e", "a", "d", "_", "A", "r",
      "c", "h", "i", "t", "e", "c", "t", "u", "r", "e", "_", "I", "n", "t",
      "e", "r", "v", "i", "e", "w", "_", "P", "r", "e", "p", "_", "P", "a",
      "r", "t", "2", ".", "d", "o", "c", "x">>,
    <<"S", "e", "n", "i", "o", "r", "_", "L", "e", "a", "d", "_", "A", "r",
      "c", "h", "i", "t", "e", "c", "t", "u", "r", "e", "_", "I", "n", "t",
      "e", "r", "v", "i", "e", "w", "_", "P", "r", "e", "p", "_", "P", "a",
      "r", "t", "3", ".", "d", "o", "c", "x">>
  >>

sDocx    == <<".", "d", "o", "c", "x">>
sMd      == <<".", "m", "d">>
sSkip    ==
    <<"S", "k", "i", "p", " ", "(", "n", "o", "t", " ", "f", "o", "u", "n",
      "d", ")", ":", " ">>
sCreated == <<"C", "r", "e", "a", "t", "e", "d", ":", " ">>

\* base / name
PathOf(name) == [parent |-> "base", name |-> name]

\* name.replace(".docx", ".md")
MdName(name) == Replace(name, sDocx, sMd)

NameIdx == 1..Len(Names)

MainDocs ==
    { [paragraphs |-> <<>>, tables |-> <<>>],
      [paragraphs |-> << [style |-> StyleOf(Some(sHeading2)), text |-> <<"a">>] >>,
       tables |-> << <<Row3, Row1>> >>] }

InitM ==
    /\ exists \in SUBSET NameIdx
    /\ readable \in SUBSET exists
    /\ fileDoc \in [NameIdx -> MainDocs]
    /\ midx = 1
    /\ writes = <<>> /\ printed = <<>> /\ converted = <<>>
    /\ mpc = "loop"
    /\ IdleC
    /\ IdleR

\* if not docx_path.exists(): print(...); break  -- a skip that ends the run
MainSkip_halts ==
    /\ mpc = "loop" /\ midx <= Len(Names) /\ midx \notin exists
    /\ printed' = Append(printed, sSkip \o Names[midx])
    /\ mpc' = "crashed"
    /\ UNCHANGED <<exists, readable, fileDoc, midx, writes, converted, cvars, rvars>>

\* if not docx_path.exists(): print(...); continue
MainSkip ==
    /\ mpc = "loop" /\ midx <= Len(Names) /\ midx \notin exists
    /\ printed' = Append(printed, sSkip \o Names[midx])
    /\ midx' = midx + 1
    /\ UNCHANGED <<exists, readable, fileDoc, writes, converted, mpc, cvars, rvars>>

\* md_content = docx_to_md(docx_path); md_path.write_text(...); print(...)
MainConvert ==
    /\ mpc = "loop" /\ midx <= Len(Names)
    /\ midx \in exists /\ midx \in readable
    /\ LET md_name    == MdName(Names[midx])
           md_content == docx_to_md(fileDoc[midx])
       IN  /\ writes' = Append(writes, [path |-> PathOf(md_name),
                                       content |-> md_content])
           /\ printed' = Append(printed, sCreated \o md_name)
    /\ converted' = Append(converted, midx)
    /\ midx' = midx + 1
    /\ UNCHANGED <<exists, readable, fileDoc, mpc, cvars, rvars>>

\* Document(docx_path) raises inside docx_to_md: main has no handler
MainRaise ==
    /\ mpc = "loop" /\ midx <= Len(Names)
    /\ midx \in exists /\ midx \notin readable
    /\ converted' = Append(converted, midx)
    /\ mpc' = "crashed"
    /\ UNCHANGED <<exists, readable, fileDoc, midx, writes, printed, cvars, rvars>>

\* the for loop is exhausted
MainDone ==
    /\ mpc = "loop" /\ midx > Len(Names)
    /\ mpc' = "done"
    /\ UNCHANGED <<exists, readable, fileDoc, midx, writes, printed, converted,
                   cvars, rvars>>

NextM == MainSkip \/ MainConvert \/ MainRaise \/ MainDone

SpecM == InitM /\ [][NextM]_vars

-----------------------------------------------------------------------------
(* Inputs of the classifier runs *)

Frags ==
    { <<"t", "i", "t", "l", "e">>, <<"T", "i", "t", "l", "e">>,
      <<"h", "e", "a", "d", "i", "n", "g">>, <<"H", "e", "A", "d", "I", "n", "G">>,
      <<" ">>, <<"\t">>, <<"s", "u", "b">> }
    \cup {Str(i) : i \in 1..9}

RECURSIVE FragSeqs(_)
FragSeqs(n) ==
    IF n = 0 THEN {<<>>}
    ELSE LET shorter == FragSeqs(n - 1)
         IN  shorter \cup {s \o f : s \in shorter, f \in Frags}

Labels == FragSeqs(MaxFrags)

Styles == {NoStyle, StyleOf(None)} \cup {StyleOf(Some(l)) : l \in Labels}

Texts == { <<>>, <<" ", "\t">>, <<"I", "n", "t", "r", "o">>,
           <<" ", "a", " ", "b", "\n">> }

\* the style label as the classifier's input: absent, or the style's name
LabelOf(st) == IF st.present THEN st.name ELSE None

-----------------------------------------------------------------------------
(* Classifier runs: heading_level on the label, then a one-paragraph walk *)

InitC ==
    /\ style \in Styles
    /\ hl = -1
    /\ ptext = <<>>
    /\ line = <<>>
    /\ plines = <<>>
    /\ cpc = "start"
    /\ IdleR
    /\ IdleM

Classify ==
    /\ cpc = "start"
    /\ hl' = heading_level(LabelOf(style))
    /\ cpc' = "classified"
    /\ UNCHANGED <<style, ptext, line, plines, rvars, mvars>>

Convert ==
    /\ cpc = "classified"
    /\ \E t \in Texts :
        LET para == [style |-> style, text |-> t]
        IN  /\ ptext' = t
            /\ line' = paragraph_to_md(para)
            /\ plines' = ParaAppend(plines, para)
    /\ cpc' = "done"
    /\ UNCHANGED <<style, hl, rvars, mvars>>

NextC == Classify \/ Convert

SpecC == InitC /\ [][NextC]_vars

-----------------------------------------------------------------------------
(* Vocabulary of the classifier properties.  Letter case is compared       *)
(* character by character, independently of Lower.                         *)

SameLetter(a, b) == a = b \/ (a \in DOMAIN UpperMap /\ UpperMap[a] = b)

\* s equals the lower-case word w up to letter case
EqAnyCase(s, w) ==
    /\ Len(s) = Len(w)
    /\ \A k \in 1..Len(w) : SameLetter(s[k], w[k])

\* s contains the lower-case word w in some letter case
ContainsAnyCase(s, w) ==
    \E i \in 1..(Len(s) - Len(w) + 1) : EqAnyCase(SubSeq(s, i, i + Len(w) - 1), w)

\* s contains "heading", any run of whitespace (possibly empty), then digit n
ContainsHeadingWs(s, n) ==
    \E i \in 1..Len(s) : \E j \in (i + Len(sHeading))..Len(s) :
        /\ EqAnyCase(SubSeq(s, i, i + Len(sHeading) - 1), sHeading)
        /\ \A k \in (i + Len(sHeading))..(j - 1) : s[k] \in Whitespace
        /\ s[j] = DigitChars[n]

\* s contains "heading n" or "headingn" in some letter case
ContainsHeadingN(s, n) ==
    \/ ContainsAnyCase(s, sHeading \o <<" ">> \o Str(n))
    \/ ContainsAnyCase(s, sHeading \o Str(n))

Named == style.present /\ ~style.name.none
Label == style.name.s
Classified == cpc \in {"classified", "done"}

\* the line the renderer is to emit for trimmed text t at level lv
LineAt(lv, t) == IF lv >= 1 THEN Repeat(<<"#">>, lv) \o <<" ">> \o t ELSE t

-----------------------------------------------------------------------------
(* Classifier properties *)

\* C1: for every paragraph with non-empty trimmed text and every style label,
\* the line emitted by the walk is the one for the level heading_level assigns
\* to the paragraph's own label (get_style_name never changes the level).
C1_LineUsesLabelLevel ==
    (cpc = "done" /\ Strip(ptext) # <<>>) =>
        /\ line = LineAt(hl, Strip(ptext))
        /\ plines = <<LineAt(hl, Strip(ptext))>>

\* C2: every label containing "title" in any letter case is classified 1,
\* also when a "heading N" / "headingN" substring is present.
C2_TitleIsLevelOne ==
    (Classified /\ Named /\ ContainsAnyCase(Label, sTitle)) => hl = 1

C2_Witness ==
    /\ cpc = "classified" /\ Named /\ hl = 1
    /\ ContainsAnyCase(Label, sTitle)
    /\ ~StartsWith(Lower(Label), sTitle)
    /\ \E n \in 2..9 : ContainsHeadingN(Label, n)

\* C3 as stated: every label containing "heading", any amount of whitespace
\* and "3" is classified 3, whatever else the label contains.
C3_AnyWhitespaceAnyContext ==
    (Classified /\ Named /\ ContainsHeadingWs(Label, 3)) => hl = 3

\* C3 amended: a label containing "heading 3" (one space) or "heading3" in any
\* letter case is classified 3 unless it also contains "title" or a
\* "heading 1", "heading1", "heading 2" or "heading2" substring.
C3_Heading3 ==
    ( /\ Classified /\ Named
      /\ ContainsHeadingN(Label, 3)
      /\ ~ContainsAnyCase(Label, sTitle)
      /\ ~ContainsHeadingN(Label, 1)
      /\ ~ContainsHeadingN(Label, 2) ) => hl = 3

C3_Witness ==
    /\ cpc = "classified" /\ Named /\ hl = 3
    /\ ContainsAnyCase(Label, sHeading \o Str(3))
    /\ ~Contains(Label, sHeading)
    /\ Len(Label) > Len(sHeading) + 1

\* C4: a label that is "heading N" or "headingN" (N in 1..9, any letter case)
\* is classified min(N, 6), and no label is classified outside 0..6.
C4_ClampedLevel ==
    Classified =>
        /\ hl \in 0..6
        /\ Named =>
            \A n \in 1..9 :
                ( \/ EqAnyCase(Label, sHeading \o <<" ">> \o Str(n))
                  \/ EqAnyCase(Label, sHeading \o Str(n)) )
                => hl = (IF n <= 6 THEN n ELSE 6)

C4_Witness ==
    /\ cpc = "classified" /\ Named /\ hl = 6
    /\ EqAnyCase(Label, sHeading \o <<" ">> \o Str(9))
    /\ ~Contains(Label, sHeading)

-----------------------------------------------------------------------------
(* Vocabulary of the renderer properties *)

RemoveAt(q, i) == SubSeq(q, 1, i - 1) \o SubSeq(q, i + 1, Len(q))

\* "|" followed by c copies of " --- |"
SepOf(c) == <<"|">> \o Join(<<>>, [k \in 1..c |-> <<" ", "-", "-", "-", " ", "|">>])

\* the table loop has just completed the iteration of table tidx - 1
TableJustDone == rpc \in {"tables", "done"} /\ tidx >= 2
LastTable == doc.tables[tidx - 1]

\* tables whose iteration is complete
DoneTables == IF rpc \in {"tables", "done"} THEN 1..(tidx - 1) ELSE {}

IsTableUnit(tag) == tag.k \in {"open", "row", "sep", "close"}

-----------------------------------------------------------------------------
(* Renderer properties *)

\* C5: a table with n >= 2 rows whose first row has c cells adds exactly one
\* empty unit, the first row's line, one separator "|" + c * " --- |", the
\* other n-1 row lines in order and one empty unit, after whatever the list
\* held before, with c taken from the first row only.
C5_TableBlock ==
    (TableJustDone /\ Len(LastTable) >= 2) =>
        LET t == LastTable
        IN  lines = mark \o << <<>>, RowLine(t[1]), SepOf(Len(t[1])) >>
                         \o [i \in 1..(Len(t) - 1) |-> RowLine(t[i + 1])]
                         \o << <<>> >>

C5_Witness ==
    /\ rpc = "tables" /\ tidx = 3
    /\ Len(doc.tables[1]) >= 1 /\ Len(LastTable) = 2
    /\ Len(LastTable[1]) = 3 /\ Len(LastTable[2]) = 1
    /\ \E k \in 1..Len(mark) : origin[k].k = "para"
    /\ \E k \in 1..Len(mark) : origin[k].k = "sep"
    /\ lines[Len(mark) + 3] =
         <<"|", " ", "-", "-", "-", " ", "|", " ", "-", "-", "-", " ", "|",
           " ", "-", "-", "-", " ", "|">>
    /\ Len(lines) = Len(mark) + 5

\* C6: after every step of the walk, paragraph units precede table units,
\* paragraph lines are in paragraph order, table blocks in table order and
\* the row lines of a block in row order, each unit holding its source's line.
C6_Order ==
    /\ Len(origin) = Len(lines)
    /\ \A i \in 1..Len(origin) : \A j \in (i + 1)..Len(origin) :
        /\ ~(IsTableUnit(origin[i]) /\ origin[j].k = "para")
        /\ (origin[i].k = "para" /\ origin[j].k = "para")
              => origin[i].a < origin[j].a
        /\ (IsTableUnit(origin[i]) /\ IsTableUnit(origin[j]))
              => origin[i].a <= origin[j].a
        /\ (origin[i].k = "row" /\ origin[j].k = "row" /\ origin[i].a = origin[j].a)
              => origin[i].b < origin[j].b
    /\ \A i \in 1..Len(origin) :
        /\ origin[i].k = "para" => lines[i] = paragraph_to_md(doc.paragraphs[origin[i].a])
        /\ origin[i].k = "row" => lines[i] = RowLine(doc.tables[origin[i].a][origin[i].b])
    /\ rpc = "done" =>
        /\ \A p \in 1..Len(doc.paragraphs) :
              Strip(doc.paragraphs[p].text) # <<>>
                  => \E i \in 1..Len(origin) : origin[i] = Tag("para", p, 0)
        /\ \A t \in 1..Len(doc.tables) : \A r \in 1..Len(doc.tables[t]) :
              \E i \in 1..Len(origin) : origin[i] = Tag("row", t, r)

C6_Witness ==
    /\ rpc = "sep_done" /\ tidx = 2
    /\ Cardinality({i \in 1..Len(origin) : origin[i].k = "para"}) >= 2
    /\ \E i \in 1..Len(origin) : origin[i] = Tag("row", 1, 1)
    /\ \E i \in 1..Len(origin) : origin[i] = Tag("sep", 2, 0)

\* C7: a paragraph with empty or whitespace-only text contributes no unit,
\* whatever its style: the output is that of the document without it.
C7_BlankParagraph ==
    rpc = "done" =>
        \A p \in 1..Len(doc.paragraphs) :
            Strip(doc.paragraphs[p].text) = <<>> =>
                /\ out = docx_to_md([doc EXCEPT !.paragraphs = RemoveAt(@, p)])
                /\ \A i \in 1..Len(origin) : origin[i] # Tag("para", p, 0)

C7_Witness ==
    /\ rpc = "done" /\ Len(doc.tables) >= 1 /\ Len(lines) >= 4
    /\ \E p \in 1..Len(doc.paragraphs) :
        /\ doc.paragraphs[p].text = <<" ", "\t">>
        /\ doc.paragraphs[p].style = StyleOf(Some(sTitleCap))
        /\ \E q \in 1..Len(doc.paragraphs) :
              q # p /\ Strip(doc.paragraphs[q].text) # <<>>

\* C8: a table with zero rows contributes nothing, not even the blank units
\* around a block: the output is that of the document without the table.
C8_EmptyTable ==
    rpc = "done" =>
        \A t \in 1..Len(doc.tables) :
            Len(doc.tables[t]) = 0 =>
                /\ out = docx_to_md([doc EXCEPT !.tables = RemoveAt(@, t)])
                /\ \A i \in 1..Len(origin) :
                      ~(IsTableUnit(origin[i]) /\ origin[i].a = t)

C8_Witness ==
    /\ rpc = "done" /\ Len(doc.tables) = 2 /\ Len(doc.paragraphs) >= 1
    /\ Len(doc.tables[1]) = 2 /\ Len(doc.tables[2]) = 0
    /\ Len(lines) >= 6

\* C10 as stated: every table with at least one row, one row included, gets a
\* separator line right after its first row's line.
C10_SeparatorForEveryTable ==
    \A t \in DoneTables :
        Len(doc.tables[t]) >= 1 =>
            \E k \in 1..(Len(origin) - 1) :
                /\ origin[k] = Tag("row", t, 1)
                /\ origin[k + 1] = Tag("sep", t, 0)
                /\ lines[k + 1] = SepOf(Len(doc.tables[t][1]))

\* C10 amended: every table with at least two rows gets a separator line,
\* with as many columns as the first row has cells, right after its first
\* row's line; a table with exactly one row gets no separator line.
C10_SeparatorFromTwoRows ==
    \A t \in DoneTables :
        /\ Len(doc.tables[t]) >= 2 =>
              \E k \in 1..(Len(origin) - 1) :
                  /\ origin[k] = Tag("row", t, 1)
                  /\ origin[k + 1] = Tag("sep", t, 0)
                  /\ lines[k + 1] = SepOf(Len(doc.tables[t][1]))
        /\ Len(doc.tables[t]) = 1 =>
              /\ \A k \in 1..Len(origin) : origin[k] # Tag("sep", t, 0)
              /\ \E k \in 1..(Len(origin) - 2) :
                  /\ origin[k] = Tag("open", t, 0)
                  /\ origin[k + 1] = Tag("row", t, 1)
                  /\ origin[k + 2] = Tag("close", t, 0)
                  /\ lines[k + 1] = RowLine(doc.tables[t][1])

C10_Witness ==
    /\ rpc = "tables" /\ tidx = 3
    /\ Len(doc.tables[1]) = 1 /\ Len(doc.tables[2]) = 2
    /\ Len(doc.tables[2][1]) = 1 /\ Len(doc.tables[2][2]) = 3
    /\ \E k \in 1..Len(lines) : lines[k] = <<"|", " ", "-", "-", "-", " ", "|">>

-----------------------------------------------------------------------------
(* Properties of main *)

\* the output names the three inputs are to be written to
MdNames ==
  <<
    <<"S", "e", "n", "i", "o", "r", "_", "L", "e", "a", "d", "_", "A", "r",
      "c", "h", "i", "t", "e", "c", "t", "u", "r", "e", "_", "I", "n", "t",
      "e", "r", "v", "i", "e", "w", "_", "P", "r", "e", "p", "_", "P", "a",
      "r", "t", "1", ".", "m", "d">>,
    <<"S", "e", "n", "i", "o", "r", "_", "L", "e", "a", "d", "_", "A", "r",
      "c", "h", "i", "t", "e", "c", "t", "u", "r", "e", "_", "I", "n", "t",
      "e", "r", "v", "i", "e", "w", "_", "P", "r", "e", "p", "_", "P", "a",
      "r", "t", "2", ".", "m", "d">>,
    <<"S", "e", "n", "i", "o", "r", "_", "L", "e", "a", "d", "_", "A", "r",
      "c", "h", "i", "t", "e", "c", "t", "u", "r", "e", "_", "I", "n", "t",
      "e", "r", "v", "i", "e", "w", "_", "P", "r", "e", "p", "_", "P", "a",
      "r", "t", "3", ".", "m", "d">>
  >>

\* the names whose loop iteration has completed
Handled == 1..(midx - 1)

WritesTo(i) == {k \in 1..Len(writes) : writes[k].path = PathOf(MdNames[i])}

\* C9: for each of the three names in list order, a missing input prints a
\* skip message, is neither converted nor written, and does not halt the
\* run; every existing input whose conversion returns gets exactly one write,
\* to the name with ".docx" replaced by ".md", whichever others are missing.
C9_MissingSkipped ==
    /\ (mpc = "loop" /\ midx \in NameIdx /\ midx \notin exists) => ENABLED MainSkip
    /\ (mpc = "loop" /\ midx > Len(Names)) => ENABLED MainDone
    /\ mpc = "done" => midx = Len(Names) + 1
    /\ mpc = "crashed" => (midx \in exists /\ midx \notin readable)
    /\ \A k \in 1..Len(writes) : \E i \in Handled : writes[k].path = PathOf(MdNames[i])
    /\ \A i \in Handled :
        /\ i \notin exists =>
            /\ Cardinality({k \in 1..Len(printed) : printed[k] = sSkip \o Names[i]}) = 1
            /\ WritesTo(i) = {}
            /\ \A k \in 1..Len(converted) : converted[k] # i
        /\ i \in exists =>
            /\ Cardinality(WritesTo(i)) = 1
            /\ \A k \in WritesTo(i) : writes[k].content = docx_to_md(fileDoc[i])
    /\ (mpc = "done" /\ readable = exists) =>
            /\ Len(writes) = Cardinality(exists)
            /\ Len(printed) = Len(Names)

C9_Witness ==
    /\ mpc = "done" /\ exists = {2} /\ readable = {2}
    /\ fileDoc[2].tables # <<>>
    /\ Len(writes) = 1 /\ writes[1].path = PathOf(MdNames[2])
    /\ writes[1].content # <<>>
    /\ Len(printed) = 3

====
